---- MODULE Spec2Model ----
(***************************************************************************)
(* Inventory mutation service (service/cosmosdb_service.py) over a         *)
(* partitioned document store, with the HTTP handlers of function_app.py   *)
(* where the handler adds to what the service does.                        *)
(*                                                                         *)
(* The store is the set of documents of the Cosmos container.  A document  *)
(* is the JSON body: timestamps are ISO strings (a one-element tuple <<t>> *)
(* for the instant t, the empty tuple for JSON null) and "etag" is the     *)
(* store-assigned version token (_etag).  An Item is the pydantic object:  *)
(* timestamps are instants (positive integers), None is NoneTime.          *)
(*                                                                         *)
(* Every action is one whole call of a service method, run to its return   *)
(* or its exception.  last records the call and its outcome: "ok", the     *)
(* error kind a ValueError of the service stands for, or the name of the   *)
(* exception that leaves the service untranslated.                         *)
(*                                                                         *)
(* Spec     the service methods, one call after the other.                 *)
(* SpecHttp the single-item HTTP routes: each action is a whole handler,   *)
(*          the service call included, and last carries the status code.   *)
(* SpecConc update_item and patch_item in two steps each, their read and   *)
(*          their replace, with the steps of other requests in between.    *)
(***************************************************************************)
EXTENDS Integers, Sequences, FiniteSets, TLC

\* ---- bounds -------------------------------------------------------------
MaxOps == 3     \* operations (requests) in one behaviour

\* ---- Python / JSON values -----------------------------------------------
NoneTime == 0       \* Optional[datetime] = None
NoEtag == -1        \* etag: Optional[str] = None
EmptyEtag == 0      \* etag = "" (falsy, like None, in "if etag:")
NoToken == 0        \* continuation_token = None
NoCategory == ""    \* category = None (falsy in "if category:")
Null == << >>       \* JSON null
NoneItem == [none |-> TRUE]   \* None where an Item or a document is expected

CreatedAts == {1, 2}
FutureTime == 2 * MaxOps + 5  \* a caller-supplied instant ahead of the clock

\* model/inventory_item.py: the fields of Item the mutation protocol reads
Item(id, category, name, quantity, created_at, updated_at) ==
    [id |-> id, category |-> category, name |-> name, quantity |-> quantity,
     created_at |-> created_at, updated_at |-> updated_at]

\* datetime.isoformat() and its inverse (pydantic parsing of an ISO string)
isoformat(t) == <<t>>
fromisoformat(s) == s[1]

\* an encoder that loses the optional timestamp
jsonable_encoder_drops_updated_at(item) ==
    [id |-> item.id, category |-> item.category, name |-> item.name,
     quantity |-> item.quantity,
     created_at |-> <<item.created_at>>,
     updated_at |-> << >>]

\* fastapi.encoders.jsonable_encoder(item): the JSON body of an Item
jsonable_encoder(item) ==
    [id |-> item.id, category |-> item.category, name |-> item.name,
     quantity |-> item.quantity,
     created_at |-> isoformat(item.created_at),
     updated_at |-> IF item.updated_at = NoneTime THEN Null
                    ELSE isoformat(item.updated_at)]

\* Item(**response): pydantic keeps the declared fields, parses the ISO
\* strings and ignores the store's system properties (_etag and the like)
ItemFromDoc(doc) ==
    [id |-> doc.id, category |-> doc.category, name |-> doc.name,
     quantity |-> doc.quantity,
     created_at |-> fromisoformat(doc.created_at),
     updated_at |-> IF doc.updated_at = Null THEN NoneTime
                    ELSE fromisoformat(doc.updated_at)]

\* ---- the document store (container of the Cosmos client) ------------------
\* the body as the store keeps it: every property of the body, with a fresh
\* version token
StoreDoc(body, e) ==
    [f \in (DOMAIN body) \cup {"etag"} |-> IF f = "etag" THEN e ELSE body[f]]

Lookup(docs, id, pk) == {d \in docs : d.id = id /\ d.category = pk}

\* container.read_item(item=id, partition_key=pk)
read_item(docs, id, pk) ==
    IF Lookup(docs, id, pk) = {}
    THEN [err |-> "CosmosResourceNotFoundError", doc |-> NoneItem]
    ELSE [err |-> "", doc |-> CHOOSE d \in Lookup(docs, id, pk) : TRUE]

\* container.create_item(body=data): the store refuses a second document
\* with the same id in the same partition
container_create_item(docs, body, e) ==
    IF Lookup(docs, body.id, body.category) # {}
    THEN [err |-> "CosmosResourceExistsError", docs |-> docs, doc |-> NoneItem]
    ELSE [err |-> "", docs |-> docs \cup {StoreDoc(body, e)},
          doc |-> StoreDoc(body, e)]

\* container.replace_item(item=id, body=body, partition_key=pk, **options):
\* 404 when (id, pk) is absent, 412 when an etag with IfNotModified is given
\* and is not the document's current token, 400 when the body's partition
\* key property is not pk; otherwise the body replaces the document
container_replace_item(docs, id, body, pk, etag, e) ==
    IF Lookup(docs, id, pk) = {}
    THEN [err |-> "CosmosResourceNotFoundError", docs |-> docs, doc |-> NoneItem]
    ELSE LET d == CHOOSE x \in Lookup(docs, id, pk) : TRUE
         IN IF etag # NoEtag /\ d.etag # etag
            THEN [err |-> "CosmosAccessConditionFailedError", docs |-> docs,
                  doc |-> NoneItem]
            ELSE IF body.category # pk
            THEN [err |-> "CosmosHttpResponseError", docs |-> docs,
                  doc |-> NoneItem]
            ELSE [err |-> "", docs |-> (docs \ {d}) \cup {StoreDoc(body, e)},
                  doc |-> StoreDoc(body, e)]

\* container.delete_item(item=id, partition_key=pk)
container_delete_item(docs, id, pk) ==
    IF Lookup(docs, id, pk) = {}
    THEN [err |-> "CosmosResourceNotFoundError", docs |-> docs]
    ELSE [err |-> "", docs |-> docs \ Lookup(docs, id, pk)]

Min(a, b) == IF a < b THEN a ELSE b

\* one operation of a batch against the documents as the batch has left them
batch_operation(docs, op, pk, e) ==
    IF op.kind = "create" THEN container_create_item(docs, op.body, e)
    ELSE IF op.kind = "replace"
    THEN container_replace_item(docs, op.id, op.body, pk, NoEtag, e)
    ELSE IF op.kind = "read"
    THEN [err |-> read_item(docs, op.id, pk).err, docs |-> docs,
          doc |-> read_item(docs, op.id, pk).doc]
    ELSE [err |-> container_delete_item(docs, op.id, pk).err,
          docs |-> container_delete_item(docs, op.id, pk).docs,
          doc |-> NoneItem]

RECURSIVE batch_apply(_, _, _, _, _, _)
\* after operation i with outcome r: the batch fails with error_index i - 1,
\* or goes on with the next operation
batch_next(ops, pk, i, e, results, r) ==
    IF r.err # ""
    THEN [err |-> "CosmosBatchOperationError", results |-> << >>, etag |-> e,
          docs |-> {}, error_index |-> i - 1]
    ELSE batch_apply(r.docs, ops, pk, i + 1,
                     IF ops[i].kind \in {"create", "replace"} THEN e + 1 ELSE e,
                     Append(results, r.doc))

batch_apply(docs, ops, pk, i, e, results) ==
    IF i > Len(ops)
    THEN [err |-> "", docs |-> docs, results |-> results, etag |-> e,
          error_index |-> -1]
    ELSE batch_next(ops, pk, i, e, results,
                    batch_operation(docs, ops[i], pk, e + 1))

\* container.execute_item_batch(batch_operations, partition_key=pk): the
\* operations apply in order to one partition, all or none; the first one the
\* store refuses raises CosmosBatchOperationError with its index.  e is the
\* last token assigned before the batch.
execute_item_batch(docs, ops, pk, e) ==
    LET r == batch_apply(docs, ops, pk, 1, e, << >>)
    IN IF r.err # "" THEN [r EXCEPT !.docs = docs] ELSE r

\* the order in which a query returns the documents: stable, by key
KeyOrder == <<<<"a", "c1">>, <<"a", "c2">>, <<"b", "c1">>, <<"b", "c2">>>>

RECURSIVE InOrder(_, _)
InOrder(docs, i) ==
    IF i > Len(KeyOrder) THEN << >>
    ELSE LET found == Lookup(docs, KeyOrder[i][1], KeyOrder[i][2])
         IN (IF found = {} THEN << >> ELSE <<CHOOSE d \in found : TRUE>>)
              \o InOrder(docs, i + 1)

\* container.query_items(query, parameters, max_item_count, continuation):
\* the matching documents after the first `continuation` ones, served in
\* pages of max_item_count
query_items(docs, category, continuation) ==
    LET all == InOrder(docs, 1)
        matching == IF category # NoCategory
                    THEN SelectSeq(all, LAMBDA d : d.category = category)
                    ELSE all
    IN SubSeq(matching, continuation + 1, Len(matching))

\* "async for item in query_response": the pager fetches page after page
\* until the query is exhausted
RECURSIVE IterateAll(_, _, _)
IterateAll(results, max_item_count, off) ==
    IF off >= Len(results) THEN << >>
    ELSE SubSeq(results, off + 1, Min(off + max_item_count, Len(results)))
           \o IterateAll(results, max_item_count, off + max_item_count)

VARIABLES
    store,      \* documents of the container
    clock,      \* last reading of datetime.now(timezone.utc)
    etagCtr,    \* last version token the store assigned
    matchConditions, \* whether exceptions.MatchConditions resolves in the build
    nops,       \* operations performed so far
    origin,     \* <<id, category, created_at>> of every stored item, at creation
    prev,       \* store before the last operation
    last,       \* the last operation: name, arguments, outcome
    requests    \* update and patch calls between their read and their replace

vars ==
    <<store, clock, etagCtr, matchConditions, nops, origin, prev, last,
      requests>>

Key(d) == <<d.id, d.category>>
Keys(docs) == {Key(d) : d \in docs}

\* ---- CosmosService --------------------------------------------------------
\* get_item: the Item, or None when the store has no such document
get_item(docs, item_id, category) ==
    LET r == read_item(docs, item_id, category)
    IN IF r.err = "CosmosResourceNotFoundError" THEN NoneItem
       ELSE ItemFromDoc(r.doc)

\* a create that overwrites on an identity collision (an upsert)
create_item_upsert(docs, item, e) ==
    LET r == container_create_item(docs, jsonable_encoder(item), e)
    IN IF r.err = "CosmosResourceExistsError"
       THEN [result |-> "ok",
             docs |-> (docs \ Lookup(docs, item.id, item.category))
                        \cup {StoreDoc(jsonable_encoder(item), e)},
             ret |-> item]
       ELSE [result |-> "ok", docs |-> r.docs, ret |-> ItemFromDoc(r.doc)]

\* create_item: ValueError("... already exists") on an identity collision
create_item(docs, item, e) ==
    LET r == container_create_item(docs, jsonable_encoder(item), e)
    IN IF r.err = "CosmosResourceExistsError"
       THEN [result |-> "AlreadyExists", docs |-> docs, ret |-> NoneItem]
       ELSE [result |-> "ok", docs |-> r.docs, ret |-> ItemFromDoc(r.doc)]

\* a test that takes every etag for absent
Truthy_never(etag) == FALSE

\* "if etag:" -- None and "" are both falsy
Truthy(etag) == etag # NoEtag /\ etag # EmptyEtag

\* update_item, lines 42-56: the existence and immutables checks, the
\* timestamp and the options of the replace.  clk is the clock before the
\* call.  With a truthy etag line 56 evaluates
\* exceptions.MatchConditions.IfNotModified outside the try block: mc says
\* whether that name resolves; where it does not, AttributeError leaves the
\* method after the clock was read and before the replace.  result "" means
\* the method goes on to the replace.
update_item_check(docs, clk, mc, item, etag) ==
    LET existing == get_item(docs, item.id, item.category)
    IN IF existing = NoneItem
       THEN [result |-> "NotFound", clock |-> clk, data |-> NoneItem,
             etag |-> NoEtag]
       ELSE IF item.category # existing.category
       THEN [result |-> "ImmutableFieldViolation", clock |-> clk,
             data |-> NoneItem, etag |-> NoEtag]
       ELSE IF item.created_at # existing.created_at
       THEN [result |-> "ImmutableFieldViolation", clock |-> clk,
             data |-> NoneItem, etag |-> NoEtag]
       ELSE IF Truthy(etag) /\ ~mc
       THEN [result |-> "AttributeError", clock |-> clk + 1,
             data |-> NoneItem, etag |-> NoEtag]
       ELSE [result |-> "", clock |-> clk + 1,
             data |-> jsonable_encoder([item EXCEPT !.updated_at = clk + 1]),
             etag |-> IF Truthy(etag) THEN etag ELSE NoEtag]

\* a replace that stores the body when the item is gone (an upsert)
update_item_replace_upserts(docs, item_id, data, category, etag, e) ==
    LET r == container_replace_item(docs, item_id, data, category, etag, e)
    IN IF r.err = ""
       THEN [result |-> "ok", docs |-> r.docs, ret |-> ItemFromDoc(r.doc)]
       ELSE IF r.err = "CosmosResourceNotFoundError"
       THEN [result |-> "ok", docs |-> docs \cup {StoreDoc(data, e)},
             ret |-> ItemFromDoc(StoreDoc(data, e))]
       ELSE IF r.err = "CosmosAccessConditionFailedError"
       THEN [result |-> "ConcurrencyConflict", docs |-> docs,
             ret |-> NoneItem]
       ELSE [result |-> r.err, docs |-> docs, ret |-> NoneItem]

\* update_item, lines 57-72: the replace and the translation of its errors;
\* e is the token the store assigns if it writes
update_item_replace(docs, item_id, data, category, etag, e) ==
    LET r == container_replace_item(docs, item_id, data, category, etag, e)
    IN IF r.err = ""
       THEN [result |-> "ok", docs |-> r.docs, ret |-> ItemFromDoc(r.doc)]
       ELSE IF r.err = "CosmosResourceNotFoundError"
       THEN [result |-> "NotFound", docs |-> docs, ret |-> NoneItem]
       ELSE IF r.err = "CosmosAccessConditionFailedError"
       THEN [result |-> "ConcurrencyConflict", docs |-> docs,
             ret |-> NoneItem]
       ELSE [result |-> r.err, docs |-> docs, ret |-> NoneItem]

\* update_item(item, etag): full replace, with nothing between its check and
\* its replace
update_item(docs, clk, mc, item, etag, e) ==
    LET c == update_item_check(docs, clk, mc, item, etag)
    IN IF c.result # ""
       THEN [result |-> c.result, docs |-> docs, clock |-> c.clock,
             ret |-> NoneItem]
       ELSE LET r == update_item_replace(docs, item.id, c.data,
                                         item.category, c.etag, e)
            IN [result |-> r.result, docs |-> r.docs, clock |-> c.clock,
                ret |-> r.ret]

\* "for k, v in updates.items(): existing[k] = v"
Merge(existing, updates) ==
    [f \in (DOMAIN existing) \cup (DOMAIN updates) |->
        IF f \in DOMAIN updates THEN updates[f] ELSE existing[f]]

\* patch_item, lines 77-92: the read, the immutables check, the merge, the
\* timestamp and the options of the replace.  The store's exceptions are not
\* caught.  result "" means the method goes on to the replace.
patch_item_read(docs, clk, mc, item_id, category, updates, etag) ==
    LET r0 == read_item(docs, item_id, category)
    IN IF r0.err # ""
       THEN [result |-> r0.err, clock |-> clk, body |-> NoneItem,
             etag |-> NoEtag]
       ELSE IF r0.doc.category # category
       THEN [result |-> "ImmutableFieldViolation", clock |-> clk,
             body |-> NoneItem, etag |-> NoEtag]
       ELSE IF "created_at" \in DOMAIN updates
               /\ updates.created_at # r0.doc.created_at
       THEN [result |-> "ImmutableFieldViolation", clock |-> clk,
             body |-> NoneItem, etag |-> NoEtag]
       ELSE IF Truthy(etag) /\ ~mc
       THEN [result |-> "AttributeError", clock |-> clk + 1,
             body |-> NoneItem, etag |-> NoEtag]
       ELSE [result |-> "", clock |-> clk + 1,
             body |-> [Merge(r0.doc, updates) EXCEPT
                          !.updated_at = isoformat(clk + 1)],
             etag |-> IF Truthy(etag) THEN etag ELSE NoEtag]

\* patch_item, lines 93-99: the replace; its exceptions are not caught
patch_item_replace(docs, item_id, body, category, etag, e) ==
    LET r == container_replace_item(docs, item_id, body, category, etag, e)
    IN IF r.err = ""
       THEN [result |-> "ok", docs |-> r.docs, ret |-> ItemFromDoc(r.doc)]
       ELSE [result |-> r.err, docs |-> docs, ret |-> NoneItem]

\* patch_item(item_id, category, updates, etag): read, merge, replace, with
\* nothing between its read and its replace
patch_item(docs, clk, mc, item_id, category, updates, etag, e) ==
    LET c == patch_item_read(docs, clk, mc, item_id, category, updates, etag)
    IN IF c.result # ""
       THEN [result |-> c.result, docs |-> docs, clock |-> c.clock,
             ret |-> NoneItem]
       ELSE LET r == patch_item_replace(docs, item_id, c.body, category,
                                        c.etag, e)
            IN [result |-> r.result, docs |-> r.docs, clock |-> c.clock,
                ret |-> r.ret]

\* a delete that reports success whether or not the document existed
delete_item_always_true(docs, item_id, category) ==
    [result |-> "ok",
     docs |-> docs \ {d \in docs : d.id = item_id /\ d.category = category},
     ret |-> TRUE]

\* delete_item(item_id, category): True, or False when the store has no such
\* document
delete_item(docs, item_id, category) ==
    LET r == container_delete_item(docs, item_id, category)
    IN IF r.err = "CosmosResourceNotFoundError"
       THEN [result |-> "ok", docs |-> docs, ret |-> FALSE]
       ELSE [result |-> "ok", docs |-> r.docs, ret |-> TRUE]

\* items_by_category: the categories in order of first appearance (dict
\* insertion order), and the items of one category in input order
RECURSIVE CategoryOrder(_, _)
CategoryOrder(items, seen) ==
    IF items = << >> THEN << >>
    ELSE IF Head(items).category \in seen
    THEN CategoryOrder(Tail(items), seen)
    ELSE <<Head(items).category>>
           \o CategoryOrder(Tail(items), seen \cup {Head(items).category})

Group(items, category) == SelectSeq(items, LAMBDA i : i.category = category)

\* the operation tuple each batch method builds for one item or key
BatchOperation(kind, i) ==
    IF kind = "create" THEN [kind |-> "create", body |-> jsonable_encoder(i)]
    ELSE IF kind = "replace"
    THEN [kind |-> "replace", id |-> i.id, body |-> jsonable_encoder(i)]
    ELSE [kind |-> kind, id |-> i.id]

BatchOperations(kind, category_items) ==
    [n \in 1 .. Len(category_items) |->
        BatchOperation(kind, category_items[n])]

\* "Item(**r) for r in results"
ItemsFromDocs(results) ==
    [n \in 1 .. Len(results) |-> ItemFromDoc(results[n])]

\* the loop over the category groups shared by the four batch operations: a
\* failing group raises ValueError("Batch failed: ...") out of the loop, so
\* the groups after it are not attempted and the groups before it stay
\* committed.  kind is the operation, g the index of the next group.
RECURSIVE batch_groups(_, _, _, _, _, _, _)
batch_groups(docs, items, cats, g, kind, e, acc) ==
    IF g > Len(cats)
    THEN [result |-> "ok", docs |-> docs, ret |-> acc, etag |-> e,
          group |-> NoCategory, error_index |-> -1]
    ELSE LET category_items == Group(items, cats[g])
             batch_operations == BatchOperations(kind, category_items)
             r == execute_item_batch(docs, batch_operations, cats[g], e)
         IN IF r.err = "CosmosBatchOperationError"
            THEN [result |-> "BatchFailed", docs |-> docs, ret |-> << >>,
                  etag |-> e, group |-> cats[g],
                  error_index |-> r.error_index]
            ELSE batch_groups(r.docs, items, cats, g + 1, kind, r.etag,
                     acc \o (IF kind = "delete" THEN category_items
                             ELSE ItemsFromDocs(r.results)))

batch_create_items(docs, items, e) ==
    batch_groups(docs, items, CategoryOrder(items, {}), 1, "create", e, << >>)

batch_update_items(docs, items, e) ==
    batch_groups(docs, items, CategoryOrder(items, {}), 1, "replace", e, << >>)

batch_read_items(docs, keys, e) ==
    batch_groups(docs, keys, CategoryOrder(keys, {}), 1, "read", e, << >>)

batch_delete_items(docs, keys, e) ==
    batch_groups(docs, keys, CategoryOrder(keys, {}), 1, "delete", e, << >>)

\* list_items(category, max_items, continuation_token): every item the pager
\* yields, and the x-ms-continuation header of the pager's response_headers
\* attribute; the pager has no such attribute, so getattr gives {} and the
\* token is None
list_items(docs, category, max_items, continuation_token) ==
    [items |-> ItemsFromDocs(
                  IterateAll(query_items(docs, category, continuation_token),
                             max_items, 0)),
     next_token |-> NoToken]

\* ---- the HTTP handlers of function_app.py that add to the service ---------
\* PUT /api/items/batch: "for item in items: item.updated_at = now"
RECURSIVE StampAll(_, _)
StampAll(items, clk) ==
    IF items = << >> THEN << >>
    ELSE <<[Head(items) EXCEPT !.updated_at = clk + 1]>>
           \o StampAll(Tail(items), clk + 1)

\* the results the service raises as ValueError
ValueErrors ==
    {"AlreadyExists", "NotFound", "ImmutableFieldViolation",
     "ConcurrencyConflict", "BatchFailed"}

\* POST /api/items: 201, ValueError -> 400, any other exception -> 500
http_create_item(docs, item, e) ==
    LET r == create_item(docs, item, e)
    IN [result |-> r.result, docs |-> r.docs, ret |-> r.ret,
        status |-> IF r.result = "ok" THEN 201
                   ELSE IF r.result \in ValueErrors THEN 400
                   ELSE 500]

\* GET /api/items/{item_id}: 200, or 404 when the service returns None
http_get_item(docs, item_id, category) ==
    LET item == get_item(docs, item_id, category)
    IN [result |-> IF item = NoneItem THEN "NotFound" ELSE "ok",
        ret |-> item,
        status |-> IF item = NoneItem THEN 404 ELSE 200]

\* PUT /api/items/{item_id}: 400 when the path id is not the body's id; the
\* handler stamps updated_at, then calls update_item(item_update) with no
\* etag, whatever version the request carries; ValueError -> 404, any other
\* exception -> 500
http_update_item(docs, clk, mc, item_id, item_update, e) ==
    IF item_id # item_update.id
    THEN [result |-> "PathIdMismatch", docs |-> docs, clock |-> clk,
          ret |-> NoneItem, status |-> 400]
    ELSE LET r == update_item(docs, clk + 1, mc,
                      [item_update EXCEPT !.updated_at = clk + 1], NoEtag, e)
         IN [result |-> r.result, docs |-> r.docs, clock |-> r.clock,
             ret |-> r.ret,
             status |-> IF r.result = "ok" THEN 200
                        ELSE IF r.result \in ValueErrors THEN 404
                        ELSE 500]

\* DELETE /api/items/{item_id}: 204, or 404 when the service returns False
http_delete_item(docs, item_id, category) ==
    LET r == delete_item(docs, item_id, category)
    IN [result |-> IF r.ret THEN "ok" ELSE "NotFound", docs |-> r.docs,
        ret |-> r.ret, status |-> IF r.ret THEN 204 ELSE 404]

\* ---- actions --------------------------------------------------------------
\* origin after an operation: what it was for the keys that were stored
\* before and still are, the created values for the keys that are new
OriginAfter(docs) ==
    {o \in origin : <<o[1], o[2]>> \in Keys(docs)}
      \cup {<<d.id, d.category, d.created_at>> :
                d \in {x \in docs : Key(x) \notin Keys(store)}}

Create(item) ==
    /\ nops < MaxOps
    /\ \E r \in {create_item(store, item, etagCtr + 1)} :
          /\ store' = r.docs
          /\ etagCtr' = IF r.result = "ok" THEN etagCtr + 1 ELSE etagCtr
          /\ origin' = OriginAfter(r.docs)
          /\ last' = [op |-> "create", item |-> item, result |-> r.result,
                      ret |-> r.ret]
    /\ prev' = store
    /\ nops' = nops + 1
    /\ UNCHANGED <<clock, matchConditions, requests>>

BatchCreate(items) ==
    /\ nops < MaxOps
    /\ \E r \in {batch_create_items(store, items, etagCtr)} :
          /\ store' = r.docs
          /\ etagCtr' = r.etag
          /\ origin' = OriginAfter(r.docs)
          /\ last' = [op |-> "batchCreate", items |-> items,
                      result |-> r.result, ret |-> r.ret, group |-> r.group,
                      error_index |-> r.error_index]
    /\ prev' = store
    /\ nops' = nops + 1
    /\ UNCHANGED <<clock, matchConditions, requests>>

Get(id, category) ==
    /\ nops < MaxOps
    /\ last' = [op |-> "get", id |-> id, category |-> category,
                result |-> "ok", ret |-> get_item(store, id, category)]
    /\ prev' = store
    /\ nops' = nops + 1
    /\ UNCHANGED <<store, clock, etagCtr, matchConditions, origin,
                   requests>>

BatchRead(keys) ==
    /\ nops < MaxOps
    /\ \E r \in {batch_read_items(store, keys, etagCtr)} :
          last' = [op |-> "batchRead", keys |-> keys, result |-> r.result,
                   ret |-> r.ret, group |-> r.group,
                   error_index |-> r.error_index]
    /\ prev' = store
    /\ nops' = nops + 1
    /\ UNCHANGED <<store, clock, etagCtr, matchConditions, origin,
                   requests>>

Update(item, etag) ==
    /\ nops < MaxOps
    /\ \E r \in {update_item(store, clock, matchConditions, item, etag,
                            etagCtr + 1)} :
          /\ store' = r.docs
          /\ clock' = r.clock
          /\ etagCtr' = IF r.result = "ok" THEN etagCtr + 1 ELSE etagCtr
          /\ origin' = OriginAfter(r.docs)
          /\ last' = [op |-> "update", item |-> item, etag |-> etag,
                      result |-> r.result, ret |-> r.ret]
    /\ prev' = store
    /\ nops' = nops + 1
    /\ UNCHANGED <<matchConditions, requests>>

Patch(id, category, updates, etag) ==
    /\ nops < MaxOps
    /\ \E r \in {patch_item(store, clock, matchConditions, id, category,
                           updates, etag, etagCtr + 1)} :
          /\ store' = r.docs
          /\ clock' = r.clock
          /\ etagCtr' = IF r.result = "ok" THEN etagCtr + 1 ELSE etagCtr
          /\ origin' = OriginAfter(r.docs)
          /\ last' = [op |-> "patch", id |-> id, category |-> category,
                      updates |-> updates, etag |-> etag,
                      result |-> r.result, ret |-> r.ret]
    /\ prev' = store
    /\ nops' = nops + 1
    /\ UNCHANGED <<matchConditions, requests>>

\* PUT /api/items/batch: the handler stamps every item, then the service
\* replaces group by group
BatchUpdate(items) ==
    /\ nops < MaxOps
    /\ \E r \in {batch_update_items(store, StampAll(items, clock), etagCtr)} :
          /\ store' = r.docs
          /\ etagCtr' = r.etag
          /\ origin' = OriginAfter(r.docs)
          /\ last' = [op |-> "batchUpdate", items |-> items,
                      result |-> r.result, ret |-> r.ret, group |-> r.group,
                      error_index |-> r.error_index]
    /\ clock' = clock + Len(items)
    /\ prev' = store
    /\ nops' = nops + 1
    /\ UNCHANGED <<matchConditions, requests>>

Delete(id, category) ==
    /\ nops < MaxOps
    /\ \E r \in {delete_item(store, id, category)} :
          /\ store' = r.docs
          /\ origin' = OriginAfter(r.docs)
          /\ last' = [op |-> "delete", id |-> id, category |-> category,
                      result |-> r.result, ret |-> r.ret,
                      after_delete |-> /\ last.op = "delete"
                                       /\ last.id = id
                                       /\ last.category = category]
    /\ prev' = store
    /\ nops' = nops + 1
    /\ UNCHANGED <<clock, etagCtr, matchConditions, requests>>

BatchDelete(keys) ==
    /\ nops < MaxOps
    /\ \E r \in {batch_delete_items(store, keys, etagCtr)} :
          /\ store' = r.docs
          /\ origin' = OriginAfter(r.docs)
          /\ last' = [op |-> "batchDelete", keys |-> keys,
                      result |-> r.result, ret |-> r.ret, group |-> r.group,
                      error_index |-> r.error_index]
    /\ prev' = store
    /\ nops' = nops + 1
    /\ UNCHANGED <<clock, etagCtr, matchConditions, requests>>

\* GET /api/items
List(category, page_size, continuation_token) ==
    /\ nops < MaxOps
    /\ \E r \in {list_items(store, category, page_size, continuation_token)} :
          last' = [op |-> "list", category |-> category,
                   page_size |-> page_size,
                   continuation_token |-> continuation_token,
                   result |-> "ok", ret |-> r.items,
                   next_token |-> r.next_token]
    /\ prev' = store
    /\ nops' = nops + 1
    /\ UNCHANGED <<store, clock, etagCtr, matchConditions, origin,
                   requests>>

\* ---- the single-item HTTP operations --------------------------------------
\* POST /api/items
HttpCreate(item) ==
    /\ nops < MaxOps
    /\ \E r \in {http_create_item(store, item, etagCtr + 1)} :
          /\ store' = r.docs
          /\ etagCtr' = IF r.result = "ok" THEN etagCtr + 1 ELSE etagCtr
          /\ origin' = OriginAfter(r.docs)
          /\ last' = [op |-> "POST /api/items", item |-> item,
                      result |-> r.result, ret |-> r.ret,
                      status |-> r.status]
    /\ prev' = store
    /\ nops' = nops + 1
    /\ UNCHANGED <<clock, matchConditions, requests>>

\* GET /api/items/{item_id}?category=
HttpGet(id, category) ==
    /\ nops < MaxOps
    /\ \E r \in {http_get_item(store, id, category)} :
          last' = [op |-> "GET /api/items/{item_id}", id |-> id,
                   category |-> category, result |-> r.result,
                   ret |-> r.ret, status |-> r.status]
    /\ prev' = store
    /\ nops' = nops + 1
    /\ UNCHANGED <<store, clock, etagCtr, matchConditions, origin,
                   requests>>

\* PUT /api/items/{item_id}; if_match is the version the request carries in
\* a conditional header, which the handler does not read
HttpUpdate(item_id, item_update, if_match) ==
    /\ nops < MaxOps
    /\ \E r \in {http_update_item(store, clock, matchConditions, item_id,
                                 item_update, etagCtr + 1)} :
          /\ store' = r.docs
          /\ clock' = r.clock
          /\ etagCtr' = IF r.result = "ok" THEN etagCtr + 1 ELSE etagCtr
          /\ origin' = OriginAfter(r.docs)
          /\ last' = [op |-> "PUT /api/items/{item_id}", item_id |-> item_id,
                      item |-> item_update, if_match |-> if_match,
                      result |-> r.result, ret |-> r.ret,
                      status |-> r.status]
    /\ prev' = store
    /\ nops' = nops + 1
    /\ UNCHANGED <<matchConditions, requests>>

\* DELETE /api/items/{item_id}?category=
HttpDelete(id, category) ==
    /\ nops < MaxOps
    /\ \E r \in {http_delete_item(store, id, category)} :
          /\ store' = r.docs
          /\ origin' = OriginAfter(r.docs)
          /\ last' = [op |-> "DELETE /api/items/{item_id}", id |-> id,
                      category |-> category, result |-> r.result,
                      ret |-> r.ret, status |-> r.status]
    /\ prev' = store
    /\ nops' = nops + 1
    /\ UNCHANGED <<clock, etagCtr, matchConditions, requests>>

\* ---- update and patch, one store call at a time ---------------------------
\* Each await of the service is a point where other requests run.  A request
\* is recorded from its read to its replace: its arguments, the version
\* token of the document its read found (seen), the options and the body its
\* replace will send, and in the end its result and the token the store
\* assigned to its write (wrote).
Request(op, id, category, updates, etag, seen, c, body) ==
    [op |-> op, id |-> id, category |-> category, updates |-> updates,
     etag |-> etag, seen |-> seen, options |-> c.etag, body |-> body,
     pc |-> IF c.result = "" THEN "replace" ELSE "done",
     result |-> c.result, wrote |-> NoEtag]

SeenToken(docs, id, category) ==
    IF Lookup(docs, id, category) = {} THEN NoEtag
    ELSE (CHOOSE d \in Lookup(docs, id, category) : TRUE).etag

\* update_item up to its replace (lines 42-56)
UpdateCheck(item, etag) ==
    /\ nops < MaxOps
    /\ \E c \in {update_item_check(store, clock, matchConditions, item,
                                  etag)} :
          /\ clock' = c.clock
          /\ requests' = Append(requests,
                Request("update", item.id, item.category, << >>, etag,
                        SeenToken(store, item.id, item.category), c, c.data))
    /\ last' = [op |-> "updateCheck", req |-> Len(requests) + 1]
    /\ prev' = store
    /\ nops' = nops + 1
    /\ UNCHANGED <<store, etagCtr, matchConditions, origin>>

\* update_item from its replace on (lines 57-72)
UpdateReplace(n) ==
    /\ n \in DOMAIN requests
    /\ requests[n].op = "update"
    /\ requests[n].pc = "replace"
    /\ \E r \in {update_item_replace(store, requests[n].id, requests[n].body,
                     requests[n].category, requests[n].options,
                     etagCtr + 1)} :
          /\ store' = r.docs
          /\ etagCtr' = IF r.result = "ok" THEN etagCtr + 1 ELSE etagCtr
          /\ origin' = OriginAfter(r.docs)
          /\ requests' = [requests EXCEPT
                ![n].pc = "done", ![n].result = r.result,
                ![n].wrote = IF r.result = "ok" THEN etagCtr + 1 ELSE NoEtag]
    /\ last' = [op |-> "updateReplace", req |-> n]
    /\ prev' = store
    /\ UNCHANGED <<clock, matchConditions, nops>>

\* patch_item up to its replace (lines 77-92)
PatchRead(id, category, updates, etag) ==
    /\ nops < MaxOps
    /\ \E c \in {patch_item_read(store, clock, matchConditions, id, category,
                                updates, etag)} :
          /\ clock' = c.clock
          /\ requests' = Append(requests,
                Request("patch", id, category, updates, etag,
                        SeenToken(store, id, category), c, c.body))
    /\ last' = [op |-> "patchRead", req |-> Len(requests) + 1]
    /\ prev' = store
    /\ nops' = nops + 1
    /\ UNCHANGED <<store, etagCtr, matchConditions, origin>>

\* patch_item from its replace on (lines 93-99)
PatchReplace(n) ==
    /\ n \in DOMAIN requests
    /\ requests[n].op = "patch"
    /\ requests[n].pc = "replace"
    /\ \E r \in {patch_item_replace(store, requests[n].id, requests[n].body,
                     requests[n].category, requests[n].options,
                     etagCtr + 1)} :
          /\ store' = r.docs
          /\ etagCtr' = IF r.result = "ok" THEN etagCtr + 1 ELSE etagCtr
          /\ origin' = OriginAfter(r.docs)
          /\ requests' = [requests EXCEPT
                ![n].pc = "done", ![n].result = r.result,
                ![n].wrote = IF r.result = "ok" THEN etagCtr + 1 ELSE NoEtag]
    /\ last' = [op |-> "patchReplace", req |-> n]
    /\ prev' = store
    /\ UNCHANGED <<clock, matchConditions, nops>>

\* ---- inputs ---------------------------------------------------------------
\* the same id under two categories, and two ids in one category
InputKeys == {<<"a", "c1">>, <<"a", "c2">>, <<"b", "c1">>}
\* the keys the single-item writes and the key lists address
WriteKeys == {<<"a", "c1">>, <<"a", "c2">>}

Etags == {NoEtag, EmptyEtag, 1, 2}

\* a new item leaves quantity at its default and may carry an updated_at
CreateItems ==
    {Item(k[1], k[2], "n1", 0, 1, ua) :
        k \in InputKeys, ua \in {NoneTime, FutureTime}}

\* a full replacement: a new name, the created_at kept or changed, and an
\* updated_at of the caller's
UpdateItems ==
    {Item(k[1], k[2], "n2", 0, ca, FutureTime) :
        k \in WriteKeys, ca \in CreatedAts}

FieldChanges ==
    {[quantity |-> 5], [category |-> "c2"],
     [updated_at |-> isoformat(FutureTime)]}
      \cup {[created_at |-> isoformat(t)] : t \in CreatedAts}

\* every change unconditionally, and the quantity change under a token
PatchInputs ==
    {<<u, NoEtag>> : u \in FieldChanges}
      \cup {<<[quantity |-> 5], e>> : e \in {1, 2}}

NewItem(id, category) == Item(id, category, "n1", 0, 1, NoneTime)

\* two items of different or equal category in both orders, and three items
\* whose two-item group comes first, last, or around the other group
BatchCreateLists ==
    {l \in {<<NewItem(j[1], j[2]), NewItem(k[1], k[2])>> :
                j \in InputKeys, k \in InputKeys} : l[1] # l[2]}
      \cup {<<NewItem("a", "c1"), NewItem("b", "c1"), NewItem("a", "c2")>>,
            <<NewItem("a", "c2"), NewItem("a", "c1"), NewItem("b", "c1")>>,
            <<NewItem("b", "c1"), NewItem("a", "c2"), NewItem("a", "c1")>>}

\* one replacement, or two that keep created_at
BatchUpdateLists ==
    {<<x>> : x \in UpdateItems}
      \cup {l \in {<<x, y>> : x \in UpdateItems, y \in UpdateItems} :
                l[1].created_at = 1 /\ l[2].created_at = 1
                  /\ Key(l[1]) # Key(l[2])}

KeyRecords == {[id |-> k[1], category |-> k[2]] : k \in WriteKeys}
KeyLists ==
    {<<x>> : x \in KeyRecords}
      \cup {l \in {<<x, y>> : x \in KeyRecords, y \in KeyRecords} :
                l[1] # l[2]}

ListCategories == {NoCategory, "c1"}
PageSizes == {1, 2}
Tokens == {NoToken, 1}

Init ==
    /\ store = {}
    /\ clock = 0
    /\ etagCtr = 0
    /\ nops = 0
    /\ matchConditions \in BOOLEAN
    /\ origin = {}
    /\ prev = {}
    /\ last = [op |-> "init"]
    /\ requests = << >>

Next ==
    \/ \E item \in CreateItems : Create(item)
    \/ \E items \in BatchCreateLists : BatchCreate(items)
    \/ \E k \in InputKeys : Get(k[1], k[2])
    \/ \E keys \in KeyLists : BatchRead(keys)
    \/ \E item \in UpdateItems, etag \in Etags : Update(item, etag)
    \/ \E k \in WriteKeys, p \in PatchInputs : Patch(k[1], k[2], p[1], p[2])
    \/ \E items \in BatchUpdateLists : BatchUpdate(items)
    \/ \E k \in InputKeys : Delete(k[1], k[2])
    \/ \E keys \in KeyLists : BatchDelete(keys)
    \/ \E c \in ListCategories, n \in PageSizes, t \in Tokens :
          List(c, n, t)

Spec == Init /\ [][Next]_vars

\* the requests of the single-item HTTP routes
PathIds == {"a", "b"}
IfMatch == {NoEtag, 1, 2}

NextHttp ==
    \/ \E item \in CreateItems : HttpCreate(item)
    \/ \E k \in InputKeys : HttpGet(k[1], k[2])
    \/ \E id \in PathIds, item \in UpdateItems, v \in IfMatch :
          HttpUpdate(id, item, v)
    \/ \E k \in InputKeys : HttpDelete(k[1], k[2])

SpecHttp == Init /\ [][NextHttp]_vars

\* concurrent requests on one item: it is created and deleted by single
\* store calls, and updated and patched by calls whose read and replace
\* other requests can come between
ConcKey == <<"a", "c1">>
ConcCreateItems == {NewItem(ConcKey[1], ConcKey[2])}
ConcUpdateItems == {Item(ConcKey[1], ConcKey[2], "n2", 0, 1, NoneTime)}
ConcFieldChanges == {[quantity |-> 5], [name |-> "n3"]}
ConcEtags == {NoEtag, 1, 2}

NextConc ==
    \/ \E item \in ConcCreateItems : Create(item)
    \/ Delete(ConcKey[1], ConcKey[2])
    \/ \E item \in ConcUpdateItems, etag \in ConcEtags :
          UpdateCheck(item, etag)
    \/ \E n \in 1 .. MaxOps : UpdateReplace(n)
    \/ \E u \in ConcFieldChanges, etag \in ConcEtags :
          PatchRead(ConcKey[1], ConcKey[2], u, etag)
    \/ \E n \in 1 .. MaxOps : PatchReplace(n)

SpecConc == Init /\ [][NextConc]_vars
\* ---- properties -----------------------------------------------------------
Stored(docs, id, category) == Lookup(docs, id, category) # {}
TheDoc(docs, id, category) == CHOOSE d \in Lookup(docs, id, category) : TRUE

\* C1: update(item, expectedVersion) with an expectedVersion that differs from
\* the stored item's current version token fails with ConcurrencyConflict and
\* leaves the stored item, fields and token, as it was.
C1_StaleUpdateConflicts ==
    (/\ last.op = "update"
     /\ last.etag # NoEtag
     /\ Stored(prev, last.item.id, last.item.category)
     /\ TheDoc(prev, last.item.id, last.item.category).etag # last.etag)
    => (last.result = "ConcurrencyConflict" /\ store = prev)

\* C2: an update whose category or created_at differs from the stored item's,
\* and a patch whose changes set category or created_at to another value than
\* the stored one, fail with ImmutableFieldViolation and leave the store as it
\* was.
UpdateChangesImmutable(docs, item) ==
    \/ /\ Stored(docs, item.id, item.category)
       /\ TheDoc(docs, item.id, item.category).created_at
             # isoformat(item.created_at)
    \/ /\ ~Stored(docs, item.id, item.category)
       /\ \E d \in docs : d.id = item.id /\ d.category # item.category

PatchChangesImmutable(docs, id, category, updates) ==
    /\ Stored(docs, id, category)
    /\ \/ /\ "category" \in DOMAIN updates
          /\ updates.category # TheDoc(docs, id, category).category
       \/ /\ "created_at" \in DOMAIN updates
          /\ updates.created_at # TheDoc(docs, id, category).created_at

C2_ImmutableFieldsRejected ==
    /\ (last.op = "update" /\ UpdateChangesImmutable(prev, last.item))
         => (last.result = "ImmutableFieldViolation" /\ store = prev)
    /\ (last.op = "patch"
          /\ PatchChangesImmutable(prev, last.id, last.category, last.updates))
         => (last.result = "ImmutableFieldViolation" /\ store = prev)

\* C3: a batchCreate over two or more categories in which one group holds an
\* item colliding with a stored (id, category) and the other groups are valid
\* stores every item of every valid group and adds no item of the failing
\* group, wherever the failing group stands in the input.
Collides(docs, items, category) ==
    \E i \in 1 .. Len(items) :
        items[i].category = category /\ Stored(docs, items[i].id, category)

ItemCategories(items) == {items[i].category : i \in 1 .. Len(items)}

C3_ValidGroupsCommitted ==
    (/\ last.op = "batchCreate"
     /\ Cardinality(ItemCategories(last.items)) >= 2
     /\ Cardinality({c \in ItemCategories(last.items) :
                        Collides(prev, last.items, c)}) = 1)
    => \A i \in 1 .. Len(last.items) :
          LET it == last.items[i]
          IN IF Collides(prev, last.items, it.category)
             THEN Lookup(store, it.id, it.category)
                    = Lookup(prev, it.id, it.category)
             ELSE get_item(store, it.id, it.category) = it

\* C4: a successful patch leaves every field it does not name (other than
\* updated_at and the version token) as it was, sets every field it names to
\* the supplied value, and sets updated_at strictly greater than the item's
\* previous updated_at.
C4_PatchMergesAndStamps ==
    (last.op = "patch" /\ last.result = "ok")
    => LET old == TheDoc(prev, last.id, last.category)
           new == TheDoc(store, last.id, last.category)
       IN /\ Stored(store, last.id, last.category)
          /\ \A f \in (DOMAIN old) \ {"updated_at", "etag"} :
                new[f] = IF f \in DOMAIN last.updates THEN last.updates[f]
                         ELSE old[f]
          /\ new.updated_at # Null
          /\ old.updated_at # Null
                => fromisoformat(new.updated_at) > fromisoformat(old.updated_at)

\* C5: list returns at most pageSize items per call, returns a continuation
\* token exactly when matching items remain beyond the returned page, and the
\* pages reached by following the tokens hold every matching item once.
Matching(docs, category) ==
    {d \in docs : category = NoCategory \/ d.category = category}

C5_ListPaginates ==
    (last.op = "list")
    => LET remaining == Cardinality(Matching(store, last.category))
                          - last.continuation_token
       IN /\ Len(last.ret) <= last.page_size
          /\ (last.next_token # NoToken) <=> (remaining > Len(last.ret))
          /\ \A i, j \in 1 .. Len(last.ret) :
                i # j => last.ret[i] # last.ret[j]

C7_DeleteReportsExistence ==
    (last.op = "delete")
    => /\ last.result = "ok"
       /\ last.ret = Stored(prev, last.id, last.category)
       /\ store = prev \ Lookup(prev, last.id, last.category)
       /\ get_item(store, last.id, last.category) = NoneItem
       /\ last.after_delete => last.ret = FALSE

C7_Witness ==
    /\ last.op = "delete"
    /\ last.after_delete
    /\ last.ret = FALSE
    /\ store # {}

\* C8: the category and created_at of a stored item are the ones it was
\* created with, whatever operations followed.
C8_WriteOnceFields ==
    \A d \in store : <<d.id, d.category, d.created_at>> \in origin

\* C9: a successful update, patch or batchUpdate stores an updated_at read
\* from the service clock during the call, not the caller's, and one strictly
\* greater than the item's updated_at before the write.
WrittenKeys ==
    IF last.op = "update" THEN {<<last.item.id, last.item.category>>}
    ELSE IF last.op = "patch" THEN {<<last.id, last.category>>}
    ELSE {Key(last.items[i]) : i \in 1 .. Len(last.items)}

C9_UpdatedAtAdvances ==
    (last.op \in {"update", "patch", "batchUpdate"} /\ last.result = "ok")
    => \A k \in WrittenKeys :
          LET old == TheDoc(prev, k[1], k[2])
              new == TheDoc(store, k[1], k[2])
          IN /\ new.updated_at # Null
             /\ fromisoformat(new.updated_at) \in 1 .. clock
             /\ old.updated_at # Null
                   => fromisoformat(new.updated_at)
                        > fromisoformat(old.updated_at)

\* C10: create for a stored (id, category) fails with AlreadyExists and
\* leaves the store as it was; the store never holds two items with one
\* (id, category), while one id may be stored under two categories.
C10_CreateKeepsKeysUnique ==
    /\ (last.op = "create"
          /\ Stored(prev, last.item.id, last.item.category))
         => (last.result = "AlreadyExists" /\ store = prev)
    /\ \A d1, d2 \in store : Key(d1) = Key(d2) => d1 = d2

C10_Witness ==
    /\ last.op = "create"
    /\ last.result = "AlreadyExists"
    /\ \E d1, d2 \in store : d1.id = d2.id /\ d1.category # d2.category

\* C11: a failing single-item HTTP operation is answered with the status of
\* its error kind: POST /items for a stored (id, category) gives 409; PUT
\* /items/{id} gives 404 when no item with that id is stored, 400 when the
\* body's category or created_at differs from the stored item's, and 409 or
\* 412 when the version the request carries is not the stored item's token.
TargetMissing(docs, item) == ~\E d \in docs : d.id = item.id

VersionMismatch(docs, item, version) ==
    /\ version # NoEtag
    /\ Stored(docs, item.id, item.category)
    /\ TheDoc(docs, item.id, item.category).etag # version

C11_StatusFollowsTaxonomy ==
    /\ (last.op = "POST /api/items"
          /\ Stored(prev, last.item.id, last.item.category))
         => last.status = 409
    /\ (last.op = "PUT /api/items/{item_id}" /\ last.item_id = last.item.id)
         => /\ TargetMissing(prev, last.item) => last.status = 404
            /\ UpdateChangesImmutable(prev, last.item) => last.status = 400
            /\ (VersionMismatch(prev, last.item, last.if_match)
                  /\ ~UpdateChangesImmutable(prev, last.item))
                 => last.status \in {409, 412}

\* C12: every operation of the service ends with a normal result or with an
\* error of the taxonomy, never with an exception of the store; patch of a
\* missing item ends in NotFound, and patch with an expectedVersion that is
\* not the stored item's token ends in ConcurrencyConflict.
StoreErrors ==
    {"CosmosResourceNotFoundError", "CosmosResourceExistsError",
     "CosmosAccessConditionFailedError", "CosmosBatchOperationError",
     "CosmosHttpResponseError"}

Taxonomy == ValueErrors \cup {"ValidationFailed"}

C12_StoreErrorsTranslated ==
    /\ last.op # "init" => last.result \in {"ok"} \cup Taxonomy
    /\ (last.op = "patch" /\ ~Stored(prev, last.id, last.category))
         => last.result = "NotFound"
    /\ (last.op = "patch"
          /\ VersionMismatch(prev, [id |-> last.id, category |-> last.category],
                             last.etag))
         => last.result = "ConcurrencyConflict"

\* C13: update never creates an item: when no item with the update's
\* (id, category) is stored at its existence check, or none is stored any
\* more when its replace reaches the store, the update ends in NotFound and
\* the key is absent from the store after that step.
TheRequest == requests[last.req]

C13_UpdateNeverCreates ==
    (/\ last.op \in {"updateCheck", "updateReplace"}
     /\ ~Stored(prev, TheRequest.id, TheRequest.category))
    => /\ TheRequest.pc = "done"
       /\ TheRequest.result = "NotFound"
       /\ ~Stored(store, TheRequest.id, TheRequest.category)
       /\ store = prev

\* the item was deleted between the update's check and its replace
C13_Witness ==
    /\ last.op = "updateReplace"
    /\ TheRequest.seen # NoEtag
    /\ ~Stored(prev, TheRequest.id, TheRequest.category)
    /\ TheRequest.result = "NotFound"
    /\ store = {}

\* C14: of two update or patch requests on one item that carry the same
\* expectedVersion, the version token both found stored when they read the
\* item, at most one has its write applied, in every interleaving of their
\* steps: the replace of the other leaves the store as it was, and the
\* winner's replace leaves its own body under a fresh token.
Racing(m, n) ==
    /\ m # n
    /\ requests[m].id = requests[n].id
    /\ requests[m].category = requests[n].category
    /\ requests[m].etag # NoEtag
    /\ requests[m].etag = requests[n].etag
    /\ requests[m].seen = requests[m].etag
    /\ requests[n].seen = requests[n].etag

C14_AtMostOneWriteApplies ==
    \A m, n \in DOMAIN requests :
        Racing(m, n)
        => /\ ~(requests[m].result = "ok" /\ requests[n].result = "ok")
           /\ (/\ last.op \in {"updateReplace", "patchReplace"}
               /\ last.req = n
               /\ requests[m].result = "ok")
              => store = prev
           /\ (/\ last.op \in {"updateReplace", "patchReplace"}
               /\ last.req = n
               /\ requests[n].result = "ok")
              => /\ Lookup(store, requests[n].id, requests[n].category)
                      = {StoreDoc(requests[n].body, requests[n].wrote)}
                 /\ requests[n].wrote \notin {d.etag : d \in prev}

\* both requests read the item under one token; one wrote, then the other's
\* replace was refused
C14_Witness ==
    \E m, n \in DOMAIN requests :
        /\ Racing(m, n)
        /\ requests[m].op = "update"
        /\ requests[n].op = "patch"
        /\ requests[m].result = "ok"
        /\ requests[n].pc = "done"
        /\ requests[n].result # "ok"
        /\ last.op = "patchReplace"
        /\ last.req = n

\* C15: two patch calls without expectedVersion on one item, naming disjoint
\* fields, both read the item before either replaces it; once both replaces
\* have succeeded, the second directly after the first, the stored item
\* carries the fields of both calls.
Overlapping(m, n) ==
    /\ m # n
    /\ requests[m].op = "patch"
    /\ requests[n].op = "patch"
    /\ requests[m].id = requests[n].id
    /\ requests[m].category = requests[n].category
    /\ requests[m].etag = NoEtag
    /\ requests[n].etag = NoEtag
    /\ (DOMAIN requests[m].updates) \cap (DOMAIN requests[n].updates) = {}
    /\ requests[m].seen = requests[n].seen
    /\ requests[m].result = "ok"
    /\ requests[n].result = "ok"

Carries(doc, updates) == \A f \in DOMAIN updates : doc[f] = updates[f]

C15_ConcurrentPatchesKeepBoth ==
    \A m, n \in DOMAIN requests :
        (/\ Overlapping(m, n)
         /\ last.op = "patchReplace"
         /\ last.req = n
         /\ Stored(prev, requests[n].id, requests[n].category)
         /\ TheDoc(prev, requests[n].id, requests[n].category).etag
               = requests[m].wrote)
        => /\ Stored(store, requests[n].id, requests[n].category)
           /\ Carries(TheDoc(store, requests[n].id, requests[n].category),
                      requests[m].updates)
           /\ Carries(TheDoc(store, requests[n].id, requests[n].category),
                      requests[n].updates)
====
